---- MODULE Spec2Model ----
(***************************************************************************)
(* A model of the crawl orchestration of src/main.py (class WebCrawler):   *)
(* URL scope filtering, filename derivation, link extraction, and the      *)
(* recursive, batch-gathered traversal run by the asyncio event loop.      *)
(*                                                                         *)
(* A Python str is a sequence of one-character strings, so that parsing,   *)
(* joining and sanitising are computed character by character.             *)
(***************************************************************************)
EXTENDS Integers, Sequences, FiniteSets, TLC

----------------------------------------------------------------------------
(* Python str helpers *)

\* Op applied to the value of x: x is computed once, as Python computes an
\* argument or an assigned local before it is used
Strict(x, Op(_)) == CHOOSE r \in {Op(v) : v \in {x}} : TRUE

Min(S) == CHOOSE x \in S : \A y \in S : x <= y

\* s.find(c, from) over a set of characters: least index >= from, 0 if none
IndexOf(s, cs, from) ==
  LET I == {i \in from..Len(s) : s[i] \in cs}
  IN  IF I = {} THEN 0 ELSE Min(I)

\* s[from:] (1-based from)
Drop(s, from) == SubSeq(s, from, Len(s))

\* s.startswith(p)
StartsWith(s, p) == Len(p) <= Len(s) /\ SubSeq(s, 1, Len(p)) = p

\* s.endswith(p)
EndsWith(s, p) == Len(p) <= Len(s) /\ SubSeq(s, Len(s) - Len(p) + 1, Len(s)) = p

\* s.split(c): the segments between the occurrences of c
RECURSIVE Split(_, _)
SplitAt(s, c, i) ==
  IF i = 0 THEN <<s>>
  ELSE <<SubSeq(s, 1, i - 1)>> \o Strict(Drop(s, i + 1), LAMBDA rest : Split(rest, c))

Split(s, c) == Strict(IndexOf(s, {c}, 1), LAMBDA i : SplitAt(s, c, i))

\* c.join(segs)
RECURSIVE Join(_, _)
Join(segs, c) ==
  IF Len(segs) = 0 THEN <<>>
  ELSE IF Len(segs) = 1 THEN segs[1]
  ELSE segs[1] \o <<c>> \o Strict(Tail(segs), LAMBDA rest : Join(rest, c))

\* s.strip(c)
Strip(s, c) ==
  LET K == {i \in 1..Len(s) : s[i] # c}
  IN  IF K = {} THEN <<>>
      ELSE SubSeq(s, Min(K), CHOOSE i \in K : \A j \in K : j <= i)

\* sub is a substring of s starting at index i
MatchAt(s, sub, i) ==
  i + Len(sub) - 1 <= Len(s) /\ SubSeq(s, i, i + Len(sub) - 1) = sub

UPPERS == <<"A","B","C","D","E","F","G","H","I","J","K","L","M",
            "N","O","P","Q","R","S","T","U","V","W","X","Y","Z">>
LOWERS == <<"a","b","c","d","e","f","g","h","i","j","k","l","m",
            "n","o","p","q","r","s","t","u","v","w","x","y","z">>
DIGITS == <<"0","1","2","3","4","5","6","7","8","9">>

Range(f) == {f[i] : i \in DOMAIN f}

\* One non-ASCII letter (LATIN SMALL LETTER E WITH ACUTE), kept as a single
\* character of the str.
EACUTE == "U+00E9"

\* str.lower() of one character
ToLower(c) ==
  IF c \in Range(UPPERS) THEN LOWERS[CHOOSE i \in 1..26 : UPPERS[i] = c] ELSE c

\* urllib.parse.scheme_chars
SchemeChars == Range(UPPERS) \cup Range(LOWERS) \cup Range(DIGITS) \cup {"+", "-", "."}

\* The characters the regex class \w matches in a str pattern: ASCII
\* letters, digits, underscore, and every Unicode letter or digit.
WordChars == Range(UPPERS) \cup Range(LOWERS) \cup Range(DIGITS) \cup {"_", EACUTE}

\* re.sub(r'[^...]', '-', s): every character outside `keep` becomes '-'
ReSubOutside(s, keep) == [i \in 1..Len(s) |-> IF s[i] \in keep THEN s[i] ELSE "-"]

\* re.sub(r'-+', '-', s): every run of '-' becomes one '-'
CollapseDashes(s) ==
  Strict(SelectSeq([i \in 1..Len(s) |-> i],
                   LAMBDA i : ~(s[i] = "-" /\ i > 1 /\ s[i - 1] = "-")),
         LAMBDA kept : [k \in 1..Len(kept) |-> s[kept[k]]])

----------------------------------------------------------------------------
(* urllib.parse *)

\* s.split(c, 1): the part before the first c (all of s when there is none)
\* and the part after it (empty when there is none), given c's index i
BeforeAt(s, i) == IF i = 0 THEN s ELSE SubSeq(s, 1, i - 1)
AfterAt(s, i) == IF i = 0 THEN <<>> ELSE Drop(s, i + 1)
Before(s, c) == BeforeAt(s, IndexOf(s, {c}, 1))
After(s, c) == AfterAt(s, IndexOf(s, {c}, 1))

\* urlsplit's scheme detection: the index i of the ':' ending the scheme,
\* when i > 0, url[0] is an ASCII letter and every character before the ':'
\* is a scheme character; 0 otherwise
SchemeEndAt(url, i) ==
  IF i > 1
     /\ url[1] \in (Range(UPPERS) \cup Range(LOWERS))
     /\ \A j \in 1..(i - 1) : url[j] \in SchemeChars
  THEN i ELSE 0

SchemeEnd(url) == SchemeEndAt(url, IndexOf(url, {":"}, 1))

\* urlsplit after the netloc: fragment, then query, then path
ParseTail(scheme, netloc, rest) ==
  [scheme |-> scheme, netloc |-> netloc,
   path |-> Before(Before(rest, "#"), "?"),
   query |-> After(Before(rest, "#"), "?"),
   fragment |-> After(rest, "#")]

\* _splitnetloc(url, 2): the netloc ends at index d, the first of "/?#"
ParseNetlocAt(scheme, rest, d) ==
  IF d = 0 THEN ParseTail(scheme, Drop(rest, 3), <<>>)
  ELSE Strict(Drop(rest, d), LAMBDA tail : ParseTail(scheme, SubSeq(rest, 3, d - 1), tail))

\* urlsplit after the scheme
ParseNetloc(scheme, rest) ==
  IF StartsWith(rest, <<"/", "/">>)
  THEN Strict(IndexOf(rest, {"/", "?", "#"}, 3), LAMBDA d : ParseNetlocAt(scheme, rest, d))
  ELSE ParseTail(scheme, <<>>, rest)

ParseScheme(url, default, se) ==
  IF se > 0
  THEN Strict(Drop(url, se + 1),
              LAMBDA rest : ParseNetloc([j \in 1..(se - 1) |-> ToLower(url[j])], rest))
  ELSE ParseNetloc(default, url)

\* urlparse(url, scheme=default): [scheme, netloc, path, query, fragment].
\* (params, split at ';', are not modelled: no modelled URL holds a ';'.)
UrlParseWith(url, default) ==
  Strict(SchemeEnd(url), LAMBDA se : ParseScheme(url, default, se))

\* urlparse(url)
UrlParse(url) == UrlParseWith(url, <<>>)

\* urlsplit's test of the netloc: one of "[" and "]" without the other
\* is "Invalid IPv6 URL"
InvalidNetloc(netloc) == ("[" \in Range(netloc)) # ("]" \in Range(netloc))

\* urlparse(url, scheme=default) raises ValueError instead of returning
UrlParseRaises(url, default) ==
  Strict(UrlParseWith(url, default), LAMBDA parsed : InvalidNetloc(parsed.netloc))

USES_NETLOC == {<<"h","t","t","p">>, <<"h","t","t","p","s">>, <<"f","t","p">>, <<>>}
USES_RELATIVE == {<<"h","t","t","p">>, <<"h","t","t","p","s">>, <<"f","t","p">>, <<>>}

\* url + sep + part when part is not empty
WithPart(url, sep, part) == IF part # <<>> THEN url \o sep \o part ELSE url

\* scheme + ':' + url when there is a scheme
WithScheme(scheme, url) == IF scheme # <<>> THEN scheme \o <<":">> \o url ELSE url

\* urlunsplit's '//' + netloc + path
WithNetloc(p) ==
  IF p.netloc # <<>>
     \/ (p.scheme # <<>> /\ p.scheme \in USES_NETLOC /\ ~StartsWith(p.path, <<"/", "/">>))
  THEN <<"/", "/">> \o p.netloc
       \o (IF p.path # <<>> /\ p.path[1] # "/" THEN <<"/">> ELSE <<>>)
       \o p.path
  ELSE p.path

\* urlunparse((scheme, netloc, path, '', query, fragment))
UrlUnparse(p) ==
  WithPart(WithPart(WithScheme(p.scheme, WithNetloc(p)), <<"?">>, p.query),
           <<"#">>, p.fragment)

\* urljoin's dot-segment removal over the merged segments
RECURSIVE ResolveSegs(_, _)
ResolveRest(segs, acc) ==
  Strict(acc, LAMBDA resolved :
    Strict(Tail(segs), LAMBDA rest : ResolveSegs(rest, resolved)))

ResolveSegs(segs, acc) ==
  IF Len(segs) = 0 THEN acc
  ELSE IF Head(segs) = <<".", ".">>
       THEN ResolveRest(segs, IF Len(acc) = 0 THEN acc ELSE SubSeq(acc, 1, Len(acc) - 1))
  ELSE IF Head(segs) = <<".">> THEN ResolveRest(segs, acc)
  ELSE ResolveRest(segs, Append(acc, Head(segs)))

\* segments[1:-1] = filter(None, segments[1:-1])
FilterInner(segs) ==
  IF Len(segs) <= 2 THEN segs
  ELSE <<segs[1]>>
       \o SelectSeq(SubSeq(segs, 2, Len(segs) - 1), LAMBDA x : x # <<>>)
       \o <<segs[Len(segs)]>>

\* base_parts: the base path's segments without its last, unless that is empty
BaseParts(parts) ==
  IF parts[Len(parts)] # <<>> THEN SubSeq(parts, 1, Len(parts) - 1) ELSE parts

\* the segments urljoin resolves
MergedSegments(bpath, path) ==
  IF path[1] = "/" THEN Split(path, "/")
  ELSE Strict(Strict(Split(bpath, "/"), BaseParts) \o Split(path, "/"), FilterInner)

\* resolved_path, with '' appended when the last segment was '.' or '..'
Resolved(segs, resolved) ==
  IF segs[Len(segs)] \in {<<".">>, <<".", ".">>} THEN Append(resolved, <<>>) ELSE resolved

\* '/'.join(resolved_path) or '/'
OrSlash(path) == IF path = <<>> THEN <<"/">> ELSE path

SlashJoin(segs) == Join(segs, "/")

ResolvedPathOf(segs) ==
  Strict(Strict(Strict(ResolveSegs(segs, <<>>), LAMBDA resolved : Resolved(segs, resolved)),
                SlashJoin),
         OrSlash)

\* urljoin on the parsed base b and the parsed reference u
JoinParsed(b, u, url) ==
  IF u.scheme # b.scheme \/ u.scheme \notin USES_RELATIVE THEN url
  ELSE IF u.scheme \in USES_NETLOC /\ u.netloc # <<>> THEN UrlUnparse(u)
  ELSE IF u.path = <<>>
       THEN Strict([u EXCEPT
              !.netloc = IF u.scheme \in USES_NETLOC THEN b.netloc ELSE u.netloc,
              !.path = b.path,
              !.query = IF u.query = <<>> THEN b.query ELSE u.query], UrlUnparse)
  ELSE Strict([u EXCEPT
         !.netloc = IF u.scheme \in USES_NETLOC THEN b.netloc ELSE u.netloc,
         !.path = Strict(MergedSegments(b.path, u.path), ResolvedPathOf)], UrlUnparse)

JoinBase(b, url) == Strict(UrlParseWith(url, b.scheme), LAMBDA u : JoinParsed(b, u, url))

\* urljoin(base, url)
UrlJoin(base, url) ==
  IF base = <<>> THEN url
  ELSE IF url = <<>> THEN base
  ELSE Strict(UrlParse(base), LAMBDA b : JoinBase(b, url))

\* urljoin(base, url) raises ValueError: either of its two urlparse calls does
UrlJoinRaises(base, url) ==
  /\ base # <<>>
  /\ url # <<>>
  /\ \/ UrlParseRaises(base, <<>>)
     \/ Strict(UrlParse(base), LAMBDA b : UrlParseRaises(url, b.scheme))

----------------------------------------------------------------------------
(* The state *)

VARIABLES
  start_url,      \* WebCrawler.start_url
  max_depth,      \* WebCrawler.max_depth
  allow_query,    \* WebCrawler.allow_query
  domain,         \* WebCrawler.domain
  visited_urls,   \* WebCrawler.visited_urls
  web,            \* the crawled site and its failures: what AsyncWebCrawler.arun and open() answer
  files,          \* the output directory: filename -> what the last open()/write() left there
  tasks,          \* the crawl_recursive coroutines created so far, each with its locals and position
  ready,          \* the event loop's FIFO queue of coroutines scheduled to run
  report,         \* start_crawling's final "Total pages crawled" line, once printed
  probe           \* a direct call of one method and what it returned

vars == <<start_url, max_depth, allow_query, domain, visited_urls,
          web, files, tasks, ready, report, probe>>

----------------------------------------------------------------------------
(* WebCrawler.is_valid_url *)

NEWLINE == "\n"

\* re.match(r".*<lit>.*", url): lit occurs in url, with no newline before it
ReMatchContaining(url, lit) ==
  \E i \in 1..Len(url) :
     MatchAt(url, lit, i) /\ \A j \in 1..(i - 1) : url[j] # NEWLINE

\* re.match(r".*", url): the empty prefix already matches
ReMatchAnything(url) == TRUE

\* allowed_patterns without its last entry r".*"
MatchesAllowedPattern_NoCatchAll(url) ==
  \/ ReMatchContaining(url, <<"f","i","g","m","a",".","c","o","m","/",
                              "p","l","u","g","i","n","-","d","o","c","s","/">>)
  \/ ReMatchContaining(url, <<"e","x","a","m","p","l","e",".","c","o","m">>)
  \/ ReMatchContaining(url, <<"l","e","a","r","n",".","m","i","c","r","o","s","o","f","t",
                              ".","c","o","m">>)

\* some pattern of allowed_patterns matches url
MatchesAllowedPattern(url) ==
  \/ ReMatchContaining(url, <<"f","i","g","m","a",".","c","o","m","/",
                              "p","l","u","g","i","n","-","d","o","c","s","/">>)
  \/ ReMatchContaining(url, <<"e","x","a","m","p","l","e",".","c","o","m">>)
  \/ ReMatchContaining(url, <<"l","e","a","r","n",".","m","i","c","r","o","s","o","f","t",
                              ".","c","o","m">>)
  \/ ReMatchAnything(url)

\* The path-prefix rule of is_valid_url (line 75)
UnderStartPath(path) == StartsWith(path, UrlParse(start_url).path)

\* lines 68-72 left out: no query string is rejected
QueryRejected_Never(query) == FALSE

\* The query rule of is_valid_url (lines 68-72): TRUE when the rule rejects
QueryRejected(query) ==
  ~allow_query /\ query # <<>> /\ query # UrlParse(start_url).query

\* is_valid_url without the path rule of lines 75-76
IsValidUrl_NoPathRule(url) ==
  Strict(UrlParse(url), LAMBDA parsed :
    IF parsed.netloc # domain THEN FALSE
    ELSE IF QueryRejected(parsed.query) THEN FALSE
    ELSE MatchesAllowedPattern(url))

IsValidUrl(url) ==
  Strict(UrlParse(url), LAMBDA parsed :
    IF parsed.netloc # domain THEN FALSE
    ELSE IF QueryRejected(parsed.query) THEN FALSE
    ELSE IF ~UnderStartPath(parsed.path) THEN FALSE
    ELSE MatchesAllowedPattern(url))

----------------------------------------------------------------------------
(* WebCrawler.url_to_filename *)

MD == <<".", "m", "d">>

\* lines 102-105: the sanitised path
StripDashes(s) == Strip(s, "-")

PathToName(path) ==
  Strict([i \in 1..Len(path) |-> IF path[i] = "/" THEN "-" ELSE path[i]], LAMBDA f1 :
    Strict(ReSubOutside(f1, WordChars \cup {"-", "_", "."}), LAMBDA f2 :
      Strict(CollapseDashes(f2), StripDashes)))

\* lines 110-112 left out: the query string as it is
QuerySafe_Raw(query) == query

\* lines 110-112 with '=' and '&' outside the kept set, as for the path
QuerySafe_AsPath(query) ==
  Strict(ReSubOutside(query, WordChars \cup {"-", "_", "."}), LAMBDA q1 :
    Strict(CollapseDashes(q1), StripDashes))

\* lines 110-112: the sanitised query
QuerySafe(query) ==
  Strict(ReSubOutside(query, WordChars \cup {"-", "_", "=", "&"}), LAMBDA q1 :
    Strict(CollapseDashes(q1), StripDashes))

\* lines 98-105: the base name for the stripped path
BaseName(path) == IF path = <<>> THEN <<"i","n","d","e","x">> ELSE PathToName(path)

\* lines 108-113 with the test `if parsed.query and self.allow_query`
WithQuery_IfAllowed(filename, query) ==
  IF query # <<>> /\ allow_query
  THEN filename \o <<"-", "-">> \o QuerySafe(query) ELSE filename

\* lines 108-113: the query suffix
WithQuery(filename, query) ==
  IF query # <<>> THEN filename \o <<"-", "-">> \o QuerySafe(query) ELSE filename

\* line 95: parsed.path.strip('/')
StripSlashes(path) == Strip(path, "/")

\* lines 115-116
WithMd(filename) == IF ~EndsWith(filename, MD) THEN filename \o MD ELSE filename

NameOfParsed(parsed) ==
  Strict(Strict(parsed.path, StripSlashes), LAMBDA path :
    Strict(BaseName(path), LAMBDA filename :
      Strict(WithQuery(filename, parsed.query), WithMd)))

UrlToFilename(url) == Strict(UrlParse(url), NameOfParsed)

----------------------------------------------------------------------------
(* WebCrawler.extract_links *)

HREF_EQ == <<"h","r","e","f","=">>
QUOTES == {"\"", "'"}

\* The regex href=["\']([^"\']+)["\'] matched at index i: the index of the
\* closing quote, or 0 when it does not match there.
ClosingQuote(i, e) == IF e > i + 6 THEN e ELSE 0

HrefMatchEnd(content, i) ==
  IF MatchAt(content, HREF_EQ, i) /\ i + 5 <= Len(content) /\ content[i + 5] \in QUOTES
  THEN ClosingQuote(i, IndexOf(content, QUOTES, i + 6))
  ELSE 0

\* re.findall(html_link_pattern, content): leftmost, non-overlapping matches
RECURSIVE FindAllFrom(_, _)
FindAllAt(content, i, e) ==
  <<SubSeq(content, i + 6, e - 1)>> \o FindAllFrom(content, e + 1)

FindAllIn(content, S) ==
  IF S = {} THEN <<>>
  ELSE Strict(Min(S), LAMBDA i :
         Strict(HrefMatchEnd(content, i), LAMBDA e : FindAllAt(content, i, e)))

FindAllFrom(content, from) ==
  Strict({i \in from..Len(content) : HrefMatchEnd(content, i) > 0},
         LAMBDA S : FindAllIn(content, S))

FindAll(content) == FindAllFrom(content, 1)

\* match.startswith(('javascript:', 'mailto:', '#'))
IsSkippedHref(match) ==
  \/ StartsWith(match, <<"j","a","v","a","s","c","r","i","p","t",":">>)
  \/ StartsWith(match, <<"m","a","i","l","t","o",":">>)
  \/ StartsWith(match, <<"#">>)

\* full_url.split('#')[0]
StripFragment(full_url) == Split(full_url, "#")[1]

\* lines 148-150 without the unique_links test
KeepLink_NoUniqueTest(clean_url, unique_links) ==
  /\ IsValidUrl(clean_url)
  /\ clean_url \notin visited_urls

\* line 148-150: the condition under which clean_url is appended
KeepLink(clean_url, unique_links) ==
  /\ IsValidUrl(clean_url)
  /\ clean_url \notin visited_urls
  /\ clean_url \notin unique_links

\* the for loop of lines 138-152 from the k-th match on
RECURSIVE ExtractLoop(_, _, _, _, _)
ExtractKeep(matches, base_url, k, links, unique_links, clean_url) ==
  IF KeepLink(clean_url, unique_links)
  THEN Strict(Append(links, clean_url), LAMBDA appended :
         Strict(unique_links \cup {clean_url}, LAMBDA added :
           ExtractLoop(matches, base_url, k + 1, appended, added)))
  ELSE ExtractLoop(matches, base_url, k + 1, links, unique_links)

ExtractLoop(matches, base_url, k, links, unique_links) ==
  IF k > Len(matches) THEN links
  ELSE IF IsSkippedHref(matches[k])
       THEN ExtractLoop(matches, base_url, k + 1, links, unique_links)
  ELSE Strict(Strict(UrlJoin(base_url, matches[k]), StripFragment), LAMBDA clean_url :
         ExtractKeep(matches, base_url, k, links, unique_links, clean_url))

ExtractLinks(content, base_url) ==
  Strict(FindAll(content), LAMBDA matches : ExtractLoop(matches, base_url, 1, <<>>, {}))

\* line 143 raises for one of the matches the loop does not skip, and
\* nothing in extract_links catches it: the call raises ValueError and
\* returns no list
RaisingMatch(matches, base_url) ==
  \E k \in 1..Len(matches) :
     ~IsSkippedHref(matches[k]) /\ UrlJoinRaises(base_url, matches[k])

ExtractRaises(content, base_url) ==
  Strict(FindAll(content), LAMBDA matches : RaisingMatch(matches, base_url))

----------------------------------------------------------------------------
(* The crawled web: what crawler.arun(url) and open(filepath, 'w') answer.  *)
(* A site is a list of pages; a page is its URL, the href values of its     *)
(* markup in order, and how fetching it ends:                               *)
(*   "ok"          result.success, with markdown and html                   *)
(*   "empty"       result.success, html but no markdown                     *)
(*   "fail"        result.success is False                                  *)
(*   "raise"       arun raises                                              *)
(*   "enter_raise" AsyncWebCrawler.__aenter__ raises                        *)

EX == <<"h","t","t","p","s",":","/","/","e","x","a","m","p","l","e",".","c","o","m">>
DOCS == EX \o <<"/","d","o","c","s","/">>
DOCS_TOP == DOCS \o <<"#","t","o","p">>
DOCS_LANG == DOCS \o <<"?","l","a","n","g","=","e","n">>

Page(url, hrefs, result) == [url |-> url, hrefs |-> hrefs, result |-> result]

\* Site 1: a documentation tree with a cycle, links leaving the scope, a
\* query link, a fragment link and two URLs with one derived filename.
DocsSite == <<
  Page(DOCS,
       << <<"a">>, <<"/","d","o","c","s","/","b">>,
          <<"h","t","t","p","s",":","/","/","o","t","h","e","r",".","c","o","m","/","x">>,
          <<"#","t","o","p">>, <<"m","a","i","l","t","o",":","x","@","y",".","z">> >>, "ok"),
  Page(DOCS \o <<"a">>,
       << <<"c">>, <<"a","/">>, <<"/","d","o","c","s","/","#","f","r","a","g">> >>, "ok"),
  Page(DOCS \o <<"b">>,
       << <<"c">>, <<"/","b","l","o","g","/","z">>, <<"b","?","v","e","r","=","2">>,
          <<"/","d","o","c","s","/">> >>, "ok"),
  Page(DOCS \o <<"c">>, << <<"/","d","o","c","s","/","a">>, <<"d">> >>, "ok"),
  Page(DOCS \o <<"a","/">>, << <<".",".","/","b">> >>, "ok"),
  Page(DOCS \o <<"d">>, << >>, "ok"),
  Page(DOCS \o <<"b","?","v","e","r","=","2">>, << >>, "ok") >>

\* Site 2: every page carries the fixed query of the start URL.
LangSite == <<
  Page(DOCS_LANG,
       << <<"a","?","l","a","n","g","=","e","n">>, <<"a">>,
          <<"a","?","l","a","n","g","=","f","r">> >>, "ok"),
  Page(DOCS \o <<"a","?","l","a","n","g","=","e","n">>, << <<"a">> >>, "ok"),
  Page(DOCS \o <<"a">>, << <<"?","l","a","n","g","=","e","n">> >>, "empty"),
  Page(DOCS \o <<"a","?","l","a","n","g","=","f","r">>, << >>, "ok") >>

\* Site 3: a page with more links than one batch holds; only the first and
\* the last linked page can be rendered.
WIDE == EX \o <<"/","w","/">>

WideSite == <<
  Page(WIDE, <<<<"p","0","1">>, <<"p","0","2">>, <<"p","0","3">>, <<"p","0","4">>, <<"p","0","5">>, <<"p","0","6">>, <<"p","0","7">>, <<"p","0","8">>, <<"p","0","9">>, <<"p","1","0">>, <<"p","1","1">>>>, "ok"),
  Page(WIDE \o <<"p","0","1">>, << <<"q">> >>, "ok"),
  Page(WIDE \o <<"p","0","2">>, << >>, "enter_raise"),
  Page(WIDE \o <<"p","0","3">>, << >>, "enter_raise"),
  Page(WIDE \o <<"p","0","4">>, << >>, "enter_raise"),
  Page(WIDE \o <<"p","0","5">>, << >>, "enter_raise"),
  Page(WIDE \o <<"p","0","6">>, << >>, "enter_raise"),
  Page(WIDE \o <<"p","0","7">>, << >>, "enter_raise"),
  Page(WIDE \o <<"p","0","8">>, << >>, "enter_raise"),
  Page(WIDE \o <<"p","0","9">>, << >>, "enter_raise"),
  Page(WIDE \o <<"p","1","0">>, << >>, "enter_raise"),
  Page(WIDE \o <<"p","1","1">>, << <<"q">> >>, "ok"),
  Page(WIDE \o <<"q">>, << >>, "ok") >>

\* Site 4: two sections that together link more pages than one batch holds.
TWIN == EX \o <<"/","t","/">>

TwinSite == <<
  Page(TWIN, <<<<"a">>, <<"b">>>>, "ok"),
  Page(TWIN \o <<"a">>, <<<<"a","1">>, <<"a","2">>, <<"a","3">>, <<"a","4">>, <<"a","5">>, <<"a","6">>>>, "ok"),
  Page(TWIN \o <<"b">>, <<<<"b","1">>, <<"b","2">>, <<"b","3">>, <<"b","4">>, <<"b","5">>>>, "ok"),
  Page(TWIN \o <<"a","1">>, << >>, "enter_raise"),
  Page(TWIN \o <<"a","2">>, << >>, "enter_raise"),
  Page(TWIN \o <<"a","3">>, << >>, "enter_raise"),
  Page(TWIN \o <<"a","4">>, << >>, "enter_raise"),
  Page(TWIN \o <<"a","5">>, << >>, "enter_raise"),
  Page(TWIN \o <<"a","6">>, << >>, "enter_raise"),
  Page(TWIN \o <<"b","1">>, << >>, "enter_raise"),
  Page(TWIN \o <<"b","2">>, << >>, "enter_raise"),
  Page(TWIN \o <<"b","3">>, << >>, "enter_raise"),
  Page(TWIN \o <<"b","4">>, << >>, "enter_raise"),
  Page(TWIN \o <<"b","5">>, << >>, "enter_raise") >>

\* Site 5: a page reached over two routes of different length (x, from b
\* and from a by way of p), and a page whose markup holds an href that
\* urljoin refuses (k).  Every page can be fetched.
MAZE == EX \o <<"/","m","/">>

MazeSite == <<
  Page(MAZE, << <<"a">>, <<"b">>, <<"k">> >>, "ok"),
  Page(MAZE \o <<"a">>, << <<"p">> >>, "ok"),
  Page(MAZE \o <<"b">>, << <<"x">> >>, "ok"),
  Page(MAZE \o <<"k">>, << <<"a">>, <<"/","/","[">> >>, "ok"),
  Page(MAZE \o <<"p">>, << <<"x">> >>, "ok"),
  Page(MAZE \o <<"x">>, << <<"y">> >>, "ok"),
  Page(MAZE \o <<"y">>, << >>, "ok") >>

Sites == <<DocsSite, LangSite, WideSite, TwinSite, MazeSite>>

\* <a href="..."> for one href value
Anchor(href) == <<"<","a"," ">> \o HREF_EQ \o <<"\"">> \o href \o <<"\"",">">>

\* the markup of a page: its anchors in order
RECURSIVE Markup(_)
Markup(hrefs) ==
  IF hrefs = <<>> THEN <<>> ELSE Anchor(Head(hrefs)) \o Strict(Tail(hrefs), Markup)

MARKDOWN == <<"t","e","x","t">>

FetchFaults == {"fail", "raise", "enter_raise", "empty"}
SaveFaults == {"open_fail", "write_fail"}

\* The page the server holds for url (a request carries no fragment); a URL
\* the site does not hold is answered with success False.
PageAt(site, u, I) == IF I = {} THEN Page(u, <<>>, "fail") ELSE site[Min(I)]

PageIn(site, u) ==
  Strict({i \in 1..Len(site) : site[i].url = u}, LAMBDA I : PageAt(site, u, I))

PageOf(url) == Strict(StripFragment(url), LAMBDA u : PageIn(Sites[web.site], u))

\* how crawler.arun(url) ends in this run
FetchKind(url) ==
  IF web.fault.url = StripFragment(url) /\ web.fault.kind \in FetchFaults
  THEN web.fault.kind ELSE PageOf(url).result

\* how open()/write() of the file for url end in this run
SaveKind(url) ==
  IF web.fault.url = StripFragment(url) /\ web.fault.kind \in SaveFaults
  THEN web.fault.kind ELSE "ok"

\* result.html or ""
ResultHtml(url) == Strict(PageOf(url).hrefs, Markup)

\* result.markdown or ""
ResultMarkdown(url) == IF FetchKind(url) = "empty" THEN <<>> ELSE MARKDOWN

----------------------------------------------------------------------------
(* WebCrawler.save_content *)

\* f.write(f"# {url}\n\n")
FileHeader(url) == <<"#", " ">> \o url \o <<NEWLINE, NEWLINE>>

Put(fs, name, text) ==
  [n \in (DOMAIN fs) \cup {name} |-> IF n = name THEN text ELSE fs[n]]

\* The output directory after save_content(url, content), and how the call
\* ended: "saved", or the exception caught at line 216 came from open()
\* ("open_error") or from a write ("write_error"). A failing write leaves what
\* open() and the writes before it did.
SaveContent(url, content) ==
  LET filename == UrlToFilename(url)
      kind     == SaveKind(url)
  IN  IF kind = "ok"
      THEN {[files |-> Put(files, filename, FileHeader(url) \o content), save |-> "saved"]}
      ELSE IF kind = "open_fail"
      THEN {[files |-> files, save |-> "open_error"]}
      ELSE {[files |-> Put(files, filename, left), save |-> "write_error"] :
              left \in {<<>>, FileHeader(url)}}

----------------------------------------------------------------------------
(* WebCrawler.crawl_recursive, crawl_page and start_crawling, as run by the *)
(* asyncio event loop. A coroutine runs from one await that suspends to the *)
(* next without interruption; `ready` is the loop's FIFO of coroutines to   *)
(* resume. pc is where a coroutine stands:                                   *)
(*   "new"       created (line 254 or 275), not yet run                      *)
(*   "fetching"  suspended in crawl_page, entering the browser and arun      *)
(*   "closing"   suspended in crawl_page, leaving `async with`               *)
(*   "gathering" suspended at asyncio.gather of one batch (line 261)         *)
(*   "rejected"  returned at line 228 or 231                                 *)
(*   "done"      returned at the end                                         *)
(* A coroutine is named by its place in the call tree: <<>> is the root call *)
(* of start_crawling, t \o <<k>> the k-th coroutine that call t created.     *)

batch_size == 10

ROOT == << >>

Parent(t) == SubSeq(t, 1, Len(t) - 1)

NewTask(url, depth) ==
  [url |-> url, depth |-> depth, pc |-> "new",
   success |-> FALSE, content |-> <<>>, links |-> <<>>, save |-> "none",
   nkids |-> 0, batch |-> 0]

Finished(task) == task.pc \in {"rejected", "done"}

\* line 227 without the visited test: `if depth > self.max_depth`
ShouldSkip_NoVisitedTest(url, depth) == depth > max_depth

\* line 227 without the depth test: `if url in self.visited_urls`
ShouldSkip_NoDepthTest(url, depth) == url \in visited_urls

\* line 227
ShouldSkip(url, depth) == depth > max_depth \/ url \in visited_urls

\* line 239 without the test: save_content is called whatever was fetched
ShouldSave_Always(content) == TRUE

\* line 239
ShouldSave(content) == content # <<>>

\* line 250 with `<=`: the links of a page at max_depth are followed too
MayRecurse_AtMaxDepth(depth) == depth <= max_depth

\* line 250
MayRecurse(depth) == depth < max_depth

\* lines 252-254: the links a coroutine is created for
LinksToCrawl(links) == SelectSeq(links, LAMBDA link : link \notin visited_urls)

\* line 260 with a slice one longer: tasks[i:i + batch_size + 1]
Batch_OneMore(t, n, i) ==
  [j \in 1..((IF i + batch_size + 1 < n THEN i + batch_size + 1 ELSE n) - i) |-> t \o <<i + j>>]

\* line 260: tasks[i:i + batch_size] of the n coroutines call t created
Batch(t, n, i) ==
  [j \in 1..((IF i + batch_size < n THEN i + batch_size ELSE n) - i) |-> t \o <<i + j>>]

\* a gather that returns with the first member that returned
BatchComplete_AnyMember(ts, p) ==
  \E k \in Range(Batch(p, ts[p].nkids, ts[p].batch)) : Finished(ts[k])

\* a gather that counts only the members that ran to the end of the function
BatchComplete_OnlyDone(ts, p) ==
  \A k \in Range(Batch(p, ts[p].nkids, ts[p].batch)) : ts[k].pc = "done"

\* asyncio.gather(*batch) has its result: every member of the batch returned
BatchComplete(ts, p) ==
  \A k \in Range(Batch(p, ts[p].nkids, ts[p].batch)) : Finished(ts[k])

\* The loop's queue once coroutine t has returned (ts holds it returned): the
\* parent awaiting the gather of t's batch is resumed when the batch is complete.
Resumed(ts, queue, t) ==
  IF t # ROOT /\ BatchComplete(ts, Parent(t))
  THEN Append(queue, Parent(t)) ELSE queue

NotReported == -1

\* lines 277-279 of start_crawling, run when the root call returns
Reported(t, visited) == IF t = ROOT THEN Cardinality(visited) ELSE report

\* lines 227-237: the coroutine at the head of the queue starts
Start ==
  /\ ready # <<>>
  /\ LET t  == Head(ready)
         me == tasks[t]
     IN  /\ me.pc = "new"
         /\ IF ShouldSkip(me.url, me.depth) \/ ~IsValidUrl(me.url)
            THEN LET ts == [tasks EXCEPT ![t].pc = "rejected"]
                 IN  /\ tasks' = ts
                     /\ ready' = Resumed(ts, Tail(ready), t)
                     /\ report' = Reported(t, visited_urls)
                     /\ UNCHANGED visited_urls
            ELSE /\ visited_urls' = visited_urls \cup {me.url}
                 /\ tasks' = [tasks EXCEPT ![t].pc = "fetching"]
                 /\ ready' = Tail(ready)
                 /\ UNCHANGED report
  /\ UNCHANGED <<start_url, max_depth, allow_query, domain, web, files, probe>>

\* lines 239-261 after crawl_page returned (content, links) to coroutine t
\* (success: whether the fetch succeeded): save, then create the child
\* coroutines and gather the first batch, or return.
Continue(t, success, content, links) ==
  LET me       == tasks[t]
      tasklist == IF MayRecurse(me.depth) THEN LinksToCrawl(links) ELSE <<>>
      n        == Len(tasklist)
      kids     == {t \o <<k>> : k \in 1..n}
  IN  \E s \in (IF ShouldSave(content) THEN SaveContent(me.url, content)
                ELSE {[files |-> files, save |-> "none"]}) :
        LET me2 == [me EXCEPT !.success = success, !.content = content,
                              !.links = links, !.save = s.save, !.nkids = n,
                              !.pc = IF n = 0 THEN "done" ELSE "gathering"]
            ts  == [id \in (DOMAIN tasks) \cup kids |->
                      IF id = t THEN me2
                      ELSE IF id \in kids
                           THEN NewTask(tasklist[id[Len(id)]], me.depth + 1)
                      ELSE tasks[id]]
        IN  /\ files' = s.files
            /\ tasks' = ts
            /\ ready' = IF n = 0 THEN Resumed(ts, Tail(ready), t)
                        ELSE Tail(ready) \o Batch(t, n, 0)
            /\ report' = IF n = 0 THEN Reported(t, visited_urls) ELSE report

\* How many callbacks the loop may hold when it polls for completed I/O
MaxReady == 2

\* the I/O a suspended coroutine waits for completes: the loop schedules it
FetchReturn(t) ==
  /\ tasks[t].pc = "fetching"
  /\ t \notin Range(ready)
  /\ Len(ready) < MaxReady
  /\ ready' = Append(ready, t)
  /\ UNCHANGED <<start_url, max_depth, allow_query, domain, visited_urls,
                 web, files, tasks, report, probe>>

CloseReturn(t) ==
  /\ tasks[t].pc = "closing"
  /\ t \notin Range(ready)
  /\ Len(ready) < MaxReady
  /\ ready' = Append(ready, t)
  /\ UNCHANGED <<start_url, max_depth, allow_query, domain, visited_urls,
                 web, files, tasks, report, probe>>

\* lines 189-191, and lines 196-198 when extract_links raises inside the
\* try: the markdown and the links, or ("", []) for a page whose fetch
\* succeeded
CrawlPageSuccess(url, html) ==
  IF ExtractRaises(html, url)
  THEN [success |-> TRUE, content |-> <<>>, links |-> <<>>]
  ELSE [success |-> TRUE, content |-> ResultMarkdown(url),
        links |-> ExtractLinks(html, url)]

\* lines 188-198 with the links extracted whatever result.success is
CrawlPageResult_LinksOnFailure(url, kind) ==
  IF kind \in {"fail", "raise", "enter_raise"}
  THEN [success |-> FALSE, content |-> <<>>,
        links |-> Strict(ResultHtml(url), LAMBDA html : ExtractLinks(html, url))]
  ELSE Strict(ResultHtml(url), LAMBDA html : CrawlPageSuccess(url, html))

\* lines 188-198: what crawl_page returns for url when the fetch ended as
\* kind (success is the model's note of result.success)
CrawlPageResult(url, kind) ==
  IF kind \in {"fail", "raise", "enter_raise"}
  THEN [success |-> FALSE, content |-> <<>>, links |-> <<>>]
  ELSE Strict(ResultHtml(url), LAMBDA html : CrawlPageSuccess(url, html))

\* lines 182-198 of crawl_page once __aenter__/arun has ended: when
\* __aenter__ raised there is no __aexit__ to await and crawl_recursive goes
\* on at once; otherwise the coroutine suspends in __aexit__
OnFetchedAs(t, kind, r) ==
  IF kind = "enter_raise"
  THEN Continue(t, r.success, r.content, r.links)
  ELSE /\ tasks' = [tasks EXCEPT ![t].pc = "closing", ![t].success = r.success,
                                 ![t].content = r.content, ![t].links = r.links]
       /\ ready' = Tail(ready)
       /\ UNCHANGED <<files, report>>

OnFetched ==
  /\ ready # <<>>
  /\ tasks[Head(ready)].pc = "fetching"
  /\ \E kind \in {FetchKind(tasks[Head(ready)].url)} :
       \E r \in {CrawlPageResult(tasks[Head(ready)].url, kind)} :
          OnFetchedAs(Head(ready), kind, r)
  /\ UNCHANGED <<start_url, max_depth, allow_query, domain, visited_urls, web, probe>>

\* crawl_page returns after __aexit__; crawl_recursive goes on at line 239
OnClosed ==
  /\ ready # <<>>
  /\ LET t  == Head(ready)
         me == tasks[t]
     IN  /\ me.pc = "closing"
         /\ Continue(t, me.success, me.content, me.links)
  /\ UNCHANGED <<start_url, max_depth, allow_query, domain, visited_urls, web, probe>>

\* lines 259-261: the gather of a batch returned; gather the next batch or return
OnBatchDone ==
  /\ ready # <<>>
  /\ LET t    == Head(ready)
         me   == tasks[t]
         i    == me.batch + batch_size
         more == i < me.nkids
         ts   == [tasks EXCEPT ![t] =
                    IF more THEN [me EXCEPT !.batch = i] ELSE [me EXCEPT !.pc = "done"]]
     IN  /\ me.pc = "gathering"
         /\ tasks' = ts
         /\ ready' = IF more THEN Tail(ready) \o Batch(t, me.nkids, i)
                     ELSE Resumed(ts, Tail(ready), t)
         /\ report' = IF more THEN report ELSE Reported(t, visited_urls)
  /\ UNCHANGED <<start_url, max_depth, allow_query, domain, visited_urls,
                 web, files, probe>>

----------------------------------------------------------------------------
(* The runs *)

MaxDepth == 3

NoFault == [url |-> <<>>, kind |-> "none"]
NoProbe == [fn |-> "none"]

\* WebCrawler.__init__ and the call of start_crawling
CrawlerInit(url, depth, query) ==
  /\ start_url = url
  /\ max_depth = depth
  /\ allow_query = query
  /\ visited_urls = {}
  /\ domain = UrlParse(url).netloc
  /\ files = [n \in {} |-> <<>>]
  /\ tasks = [id \in {ROOT} |-> NewTask(url, 0)]
  /\ ready = <<ROOT>>
  /\ report = NotReported

\* the failures a run may meet: none, or one page whose fetch or save fails
DocsFaults ==
  {NoFault, [url |-> DOCS, kind |-> "fail"]}
  \cup {[url |-> DOCS \o <<"a">>, kind |-> k] : k \in FetchFaults \cup SaveFaults}

LangFaults ==
  {NoFault, [url |-> DOCS \o <<"a","?","l","a","n","g","=","e","n">>, kind |-> "raise"]}

Run(site, url, depth, query, fault) ==
  [site |-> site, url |-> url, depth |-> depth, query |-> query, fault |-> fault]

\* the runs: the site, the command line (url, --max-depth, --allow-query)
\* and the failures met
Runs ==
  {Run(1, DOCS, d, FALSE, f) : d \in -1..MaxDepth, f \in DocsFaults}
  \cup {Run(1, DOCS, d, TRUE, NoFault) : d \in -1..MaxDepth}
  \cup {Run(1, DOCS_TOP, d, FALSE, NoFault) : d \in -1..MaxDepth}
  \cup {Run(2, DOCS_LANG, d, q, f) : d \in -1..MaxDepth, q \in BOOLEAN, f \in LangFaults}

\* runs over the sites whose pages link more than one batch
WideRuns ==
  {Run(3, WIDE, 2, FALSE, NoFault), Run(4, TWIN, 2, FALSE, NoFault)}

RunInit(r) ==
  /\ CrawlerInit(r.url, r.depth, r.query)
  /\ web = [site |-> r.site, fault |-> r.fault]
  /\ probe = NoProbe

\* runs over the site with two routes to one page
MazeRuns == {Run(5, MAZE, d, FALSE, NoFault) : d \in 0..MaxDepth}

Init == \E r \in Runs : RunInit(r)

InitMaze == \E r \in MazeRuns : RunInit(r)

InitWide == \E r \in WideRuns : RunInit(r)

Next ==
  \/ \E t \in DOMAIN tasks : FetchReturn(t)
  \/ \E t \in DOMAIN tasks : CloseReturn(t)
  \/ OnBatchDone
  \/ Start
  \/ OnClosed
  \/ OnFetched

Spec == Init /\ [][Next]_vars

SpecWide == InitWide /\ [][Next]_vars

SpecMaze == InitMaze /\ [][Next]_vars

\* The loop keeps running its callbacks and every awaited I/O ends.
FairSpec == Spec /\ WF_vars(Next)

----------------------------------------------------------------------------
(* extract_links called directly, on a crawler in any state *)

MaxHrefs == 3

\* href values: relative and absolute references, two spellings and a
\* fragment variant of one page, a query, a reference whose host part
\* urljoin refuses, and the references extract_links skips or is_valid_url
\* rejects
Hrefs == <<
  <<"a">>,
  <<"/","d","o","c","s","/","a">>,
  <<"a","#","s">>,
  <<"b","?","v","e","r","=","2">>,
  <<"/","/","[">>,
  <<"h","t","t","p","s",":","/","/","o","t","h","e","r",".","c","o","m","/","x">>,
  <<"#","t","o","p">>,
  <<"j","a","v","a","s","c","r","i","p","t",":","v","o","i","d","(","0",")">> >>

\* the hrefs of Scenario B
ScenarioB == <<Hrefs[2], Hrefs[6], Hrefs[7], Hrefs[8]>>

HrefLists ==
  {ScenarioB} \cup UNION {[1..n -> Range(Hrefs)] : n \in 0..MaxHrefs}

VisitedSets == {{}, {DOCS \o <<"a">>, DOCS \o <<"c">>}}

\* a crawler built for url, with visited_urls as a crawl may have left it,
\* and the arguments of one call of extract_links
InitExtract ==
  \E url \in {DOCS, DOCS \o <<"a","/">>}, query \in BOOLEAN, visited \in VisitedSets,
     base_url \in {DOCS, DOCS \o <<"a","/">>}, hrefs \in HrefLists :
     /\ start_url = url
     /\ max_depth = 1
     /\ allow_query = query
     /\ domain = UrlParse(url).netloc
     /\ visited_urls = visited
     /\ web = [site |-> 1, fault |-> NoFault]
     /\ files = [n \in {} |-> <<>>]
     /\ tasks = [id \in {} |-> NewTask(url, 0)]
     /\ ready = <<>>
     /\ report = NotReported
     /\ probe = [fn |-> "extract_links", hrefs |-> hrefs, base_url |-> base_url,
                 visited |-> visited, returned |-> FALSE, raised |-> FALSE,
                 links |-> <<>>]

\* how the call of extract_links(content, base_url) ends
ExtractOutcome(content, base_url) ==
  IF ExtractRaises(content, base_url)
  THEN [probe EXCEPT !.raised = TRUE]
  ELSE [probe EXCEPT !.returned = TRUE, !.links = ExtractLinks(content, base_url)]

\* links = self.extract_links(content, base_url)
ExtractCall ==
  /\ probe.fn = "extract_links"
  /\ ~probe.returned
  /\ ~probe.raised
  /\ probe' = Strict(Markup(probe.hrefs),
                     LAMBDA content : ExtractOutcome(content, probe.base_url))
  /\ UNCHANGED <<start_url, max_depth, allow_query, domain, visited_urls,
                 web, files, tasks, ready, report>>

NextExtract == ExtractCall

SpecExtract == InitExtract /\ [][NextExtract]_vars

----------------------------------------------------------------------------
(* is_valid_url and url_to_filename called directly, on a crawler built    *)
(* for any of a few root URLs                                               *)

\* a URL written out from its parts, as a browser's address bar shows it
Assemble(host, path, query) ==
  <<"h","t","t","p","s",":","/","/">> \o host \o path
    \o (IF query = <<>> THEN <<>> ELSE <<"?">> \o query)

UrlHosts == {
  <<"e","x","a","m","p","l","e",".","c","o","m">>,
  <<"d","o","c","s",".","e","x","a","m","p","l","e",".","c","o","m">>,
  <<"s","i","t","e",".","o","r","g">> }

\* paths: none, the root, pages under /docs/ (one with a letter outside
\* ASCII, one with a space and a name ending in .md), and paths outside it
UrlPaths == {
  <<>>,
  <<"/">>,
  <<"/","d","o","c","s","/">>,
  <<"/","d","o","c","s","/","a">>,
  <<"/","d","o","c","s","/","a","p","i">>,
  <<"/","d","o","c","s","/","c","a","f",EACUTE>>,
  <<"/","d","o","c","s","/","a"," ","b","/","c",".","m","d">>,
  <<"/","b","l","o","g","/","z">>,
  <<"/","d","o","c","s","x">> }

LANG_EN == <<"l","a","n","g","=","e","n">>
VER_2 == <<"v","e","r","=","2">>

UrlQueries == {
  <<>>,
  VER_2,
  LANG_EN,
  <<"q","=","a","/","b","&","r","=","%","4","1">> }

\* the root URLs, as [host, path, query]
UrlRoots == {
  [host |-> <<"e","x","a","m","p","l","e",".","c","o","m">>,
   path |-> <<"/","d","o","c","s","/">>, query |-> <<>>],
  [host |-> <<"e","x","a","m","p","l","e",".","c","o","m">>,
   path |-> <<"/","d","o","c","s","/">>, query |-> LANG_EN],
  [host |-> <<"s","i","t","e",".","o","r","g">>,
   path |-> <<"/","d","o","c","s","/">>, query |-> <<>>],
  [host |-> <<"e","x","a","m","p","l","e",".","c","o","m">>,
   path |-> <<>>, query |-> <<>>] }

\* WebCrawler(start_url, allow_query=...) for a root, and one URL to ask about
InitUrl ==
  \E root \in UrlRoots, allow \in BOOLEAN,
     host \in UrlHosts, path \in UrlPaths, query \in UrlQueries :
     /\ start_url = Assemble(root.host, root.path, root.query)
     /\ max_depth = 0
     /\ allow_query = allow
     /\ domain = UrlParse(Assemble(root.host, root.path, root.query)).netloc
     /\ visited_urls = {}
     /\ web = [site |-> 1, fault |-> NoFault]
     /\ files = [n \in {} |-> <<>>]
     /\ tasks = [id \in {} |-> NewTask(<<>>, 0)]
     /\ ready = <<>>
     /\ report = NotReported
     /\ probe = [fn |-> "url", root |-> root, host |-> host, path |-> path,
                 query |-> query, url |-> Assemble(host, path, query),
                 checked |-> FALSE, valid |-> FALSE, names |-> <<>>]

\* self.is_valid_url(url)
IsValidCall ==
  /\ probe.fn = "url"
  /\ ~probe.checked
  /\ probe' = [probe EXCEPT !.checked = TRUE, !.valid = IsValidUrl(probe.url)]
  /\ UNCHANGED <<start_url, max_depth, allow_query, domain, visited_urls,
                 web, files, tasks, ready, report>>

\* self.url_to_filename(url), called once and once again
FilenameCall ==
  /\ probe.fn = "url"
  /\ Len(probe.names) < 2
  /\ \E name \in {UrlToFilename(probe.url)} :
        probe' = [probe EXCEPT !.names = Append(@, name)]
  /\ UNCHANGED <<start_url, max_depth, allow_query, domain, visited_urls,
                 web, files, tasks, ready, report>>

NextUrl == IsValidCall \/ FilenameCall

SpecUrl == InitUrl /\ [][NextUrl]_vars

----------------------------------------------------------------------------
(* main: lines 334-339 around asyncio.run(crawler.start_crawling()), and    *)
(* the exit of the process when main returns                                *)

\* the exit status of the interpreter once main() has returned at line 343:
\* each of the three ways out of the try statement falls off the end of
\* main, and nothing calls sys.exit
ExitStatus(outcome) == 0

MainRuns == {Run(1, DOCS, d, FALSE, NoFault) : d \in 0..MaxDepth}

InitMain ==
  \E r \in MainRuns :
     /\ CrawlerInit(r.url, r.depth, r.query)
     /\ web = [site |-> r.site, fault |-> r.fault]
     /\ probe = [fn |-> "main", at |-> "asyncio.run", outcome |-> "none",
                 printed |-> "none", status |-> 0]

\* the process is over: main printed what its handler prints and returned
Exited(outcome, message) ==
  /\ probe' = [probe EXCEPT !.at = "exited", !.outcome = outcome,
                            !.printed = message, !.status = ExitStatus(outcome)]
  /\ UNCHANGED <<start_url, max_depth, allow_query, domain, visited_urls,
                 web, files, tasks, ready, report>>

\* line 335: the event loop runs one callback of the crawl
MainStep ==
  /\ probe.fn = "main"
  /\ probe.at = "asyncio.run"
  /\ Next

\* line 335 returns: start_crawling printed its summary (lines 277-279)
MainReturns ==
  /\ probe.fn = "main"
  /\ probe.at = "asyncio.run"
  /\ report # NotReported
  /\ Exited("completed", "summary")

\* lines 336-337: the user interrupts while the crawl runs
MainInterrupted ==
  /\ probe.fn = "main"
  /\ probe.at = "asyncio.run"
  /\ report = NotReported
  /\ Exited("interrupted", "notice")

\* lines 338-339: an exception leaves start_crawling while the crawl runs
\* (a print of crawl_recursive or start_crawling raising OSError on a
\* closed stdout, say; crawl_page and save_content catch their own)
MainError ==
  /\ probe.fn = "main"
  /\ probe.at = "asyncio.run"
  /\ report = NotReported
  /\ Exited("error", "error")

NextMain == MainStep \/ MainReturns \/ MainInterrupted \/ MainError

SpecMain == InitMain /\ [][NextMain]_vars

----------------------------------------------------------------------------
(* Properties *)

\* crawl_page was called by coroutine t
Dispatched(t) == tasks[t].pc \notin {"new", "rejected"}

\* C1: crawl_page is invoked at most once for any URL string: two
\* coroutines that both got past lines 227-234 never carry the same URL.
C1_SingleDispatch ==
  \A t1, t2 \in DOMAIN tasks :
     (Dispatched(t1) /\ Dispatched(t2) /\ tasks[t1].url = tasks[t2].url) => t1 = t2

\* Two coroutines were created for one URL; the first to run fetched it and
\* the second returned at line 228.
C1_Witness ==
  \E t1, t2 \in DOMAIN tasks :
     /\ t1 # t2
     /\ tasks[t1].url = tasks[t2].url
     /\ Dispatched(t1)
     /\ tasks[t2].pc = "rejected"

\* C2: every dispatched call has 0 <= depth <= max_depth; a call at depth
\* max_depth is fetched but none of its links is dispatched (no dispatched
\* call has a parent at depth >= max_depth); with max_depth < 0 nothing is
\* dispatched.
C2_DepthBound ==
  /\ \A t \in DOMAIN tasks :
        Dispatched(t) =>
          /\ 0 <= tasks[t].depth
          /\ tasks[t].depth <= max_depth
          /\ t # ROOT => tasks[Parent(t)].depth < max_depth
  /\ max_depth < 0 => (visited_urls = {} /\ \A t \in DOMAIN tasks : ~Dispatched(t))

\* A page at depth max_depth was fetched, links were extracted from it, and
\* the call returned without creating a coroutine for any of them.
C2_Witness ==
  \E t \in DOMAIN tasks :
     /\ tasks[t].depth = max_depth
     /\ tasks[t].pc = "done"
     /\ tasks[t].links # <<>>
     /\ tasks[t].nkids = 0

\* u is in scope: the host of the start URL, a path that starts with the
\* start URL's path and, unless allow_query, no query or the start URL's
C3_InScope(u) ==
  /\ UrlParse(u).netloc = UrlParse(start_url).netloc
  /\ StartsWith(UrlParse(u).path, UrlParse(start_url).path)
  /\ ~allow_query =>
       (UrlParse(u).query = <<>> \/ UrlParse(u).query = UrlParse(start_url).query)

\* C3: every URL of visited_urls, which are exactly the URLs dispatched to the
\* fetcher, is in scope.
C3_VisitedInScope ==
  /\ visited_urls = {tasks[t].url : t \in {x \in DOMAIN tasks : Dispatched(x)}}
  /\ \A u \in visited_urls : C3_InScope(u)

\* A page that links out of the scope (another host, a path outside the
\* start path, a foreign query) was crawled to the end with its in-scope
\* links visited.
C3_Witness ==
  \E t \in DOMAIN tasks :
     /\ tasks[t].url = DOCS \o <<"b">>
     /\ tasks[t].pc = "done"
     /\ ~allow_query
     /\ (DOCS \o <<"c">>) \in visited_urls

\* the fetch of coroutine t ended without a successful result
FetchFailed(t) == tasks[t].pc \in {"closing", "gathering", "done"} /\ ~tasks[t].success

\* save_content of coroutine t caught an exception
SaveFailed(t) == tasks[t].save \in {"open_error", "write_error"}

\* the coroutines call t created
Kids(t) == {t \o <<k>> : k \in 1..tasks[t].nkids}

\* every coroutine returned and the report is printed
AllReturned == report # NotReported /\ \A t \in DOMAIN tasks : Finished(tasks[t])

C4_Safe ==
  /\ \A t \in DOMAIN tasks \ {ROOT} :
        /\ FetchFailed(t) =>
             (tasks[t].save = "none" /\ tasks[t].links = <<>> /\ tasks[t].nkids = 0)
        /\ SaveFailed(t) =>
             /\ \/ UrlToFilename(tasks[t].url) \notin DOMAIN files
                \/ files[UrlToFilename(tasks[t].url)]
                     # FileHeader(tasks[t].url) \o tasks[t].content
             /\ MayRecurse(tasks[t].depth) =>
                  \A l \in Range(tasks[t].links) :
                     l \in visited_urls \/ \E k \in Kids(t) : tasks[k].url = l
  /\ \A p \in DOMAIN tasks :
        tasks[p].pc = "done" => \A k \in Kids(p) : Finished(tasks[k])

C4_SomeFailure == \E t \in DOMAIN tasks \ {ROOT} : FetchFailed(t) \/ SaveFailed(t)

Descends(t, a) == Len(a) <= Len(t) /\ SubSeq(t, 1, Len(a)) = a

\* the batch the k-th coroutine of a parent is gathered in
BatchOf(k) == (k - 1) \div batch_size

Started(t) == tasks[t].pc # "new"

Active(t) == tasks[t].pc \notin {"new", "rejected", "done"}

\* C5: the coroutines one call creates follow the order of its links; no
\* coroutine of a batch starts before every coroutine of the batches before
\* it, with everything created under it, has returned; the members of one
\* batch start in order; at most batch_size children of one call are active.
C5_BatchBarrier ==
  \A p \in DOMAIN tasks :
     /\ \A j \in 1..tasks[p].nkids :
           Started(p \o <<j>>) =>
              \A t \in DOMAIN tasks :
                 (Descends(t, p) /\ t # p /\ BatchOf(t[Len(p) + 1]) < BatchOf(j))
                   => Finished(tasks[t])
     /\ \A k \in 1..(tasks[p].nkids - 1) :
           /\ Started(p \o <<k + 1>>) => Started(p \o <<k>>)
           /\ IndexOf(tasks[p].links, {tasks[p \o <<k>>].url}, 1)
                < IndexOf(tasks[p].links, {tasks[p \o <<k + 1>>].url}, 1)
     /\ Cardinality({k \in Kids(p) : Active(k)}) <= batch_size

\* The eleventh child of a call has started, after a child of the first
\* batch crawled a page of its own.
C5_Witness ==
  \E p \in DOMAIN tasks :
     /\ tasks[p].nkids > batch_size
     /\ Started(p \o <<batch_size + 1>>)
     /\ \E k \in 1..batch_size :
           (p \o <<k, 1>>) \in DOMAIN tasks /\ tasks[p \o <<k, 1>>].pc = "done"

\* the fetch of coroutine t has been issued and has not come back
InFlight(t) == tasks[t].pc = "fetching" /\ t \notin Range(ready)

C7_Terminates == <>(Finished(tasks[ROOT]) /\ report # NotReported)

\* A run over the site with the link cycle ended with its report.
C7_Witness ==
  /\ AllReturned
  /\ max_depth >= 2
  /\ (DOCS \o <<"c">>) \in visited_urls
  /\ report = Cardinality(visited_urls)

\* C8: no member of visited_urls has a fragment, and no two members differ
\* only by their fragment.
C8_AsStated ==
  /\ \A u \in visited_urls : "#" \notin Range(u)
  /\ \A u, v \in visited_urls : StripFragment(u) = StripFragment(v) => u = v

\* The start URL with its fragment and the same page without it were both
\* visited, fetched and saved.
C8_Witness ==
  /\ DOCS_TOP \in visited_urls
  /\ DOCS \in visited_urls
  /\ \E t, u \in DOMAIN tasks :
        /\ tasks[t].url = DOCS_TOP /\ tasks[t].save = "saved"
        /\ tasks[u].url = DOCS /\ tasks[u].save = "saved"

\* save_content of coroutine t opened its file
Opened(t) == tasks[t].save \in {"saved", "write_error"}

\* C9 as stated: no two distinct URLs were written to one derived filename,
\* and at the end of a run there are as many files as URLs fetched with
\* content and written without error.
C9_AsStated ==
  /\ \A t, u \in DOMAIN tasks :
        (tasks[t].save = "saved" /\ tasks[u].save = "saved" /\ tasks[t].url # tasks[u].url)
          => UrlToFilename(tasks[t].url) # UrlToFilename(tasks[u].url)
  /\ AllReturned =>
        Cardinality(DOMAIN files)
          = Cardinality({tasks[t].url : t \in {u \in DOMAIN tasks : tasks[u].save = "saved"}})

\* C9, amended: the files are exactly the derived names of the visited URLs
\* that were fetched with non-empty content and whose file was opened; each
\* file holds what one such URL's save left (its header and content, or less
\* when its write failed); URLs sharing a derived name share one file, so
\* there are at most as many files as such URLs.
C9_FilesOfSavedPages ==
  /\ DOMAIN files = {UrlToFilename(tasks[t].url) : t \in {u \in DOMAIN tasks : Opened(u)}}
  /\ \A n \in DOMAIN files :
        \E t \in DOMAIN tasks :
           /\ Opened(t)
           /\ UrlToFilename(tasks[t].url) = n
           /\ files[n] \in {<<>>, FileHeader(tasks[t].url),
                            FileHeader(tasks[t].url) \o tasks[t].content}
  /\ \A t \in DOMAIN tasks :
        Opened(t) => /\ tasks[t].url \in visited_urls
                     /\ tasks[t].success
                     /\ tasks[t].content # <<>>
  /\ Cardinality(DOMAIN files)
       <= Cardinality({tasks[t].url : t \in {u \in DOMAIN tasks : Opened(u)}})

\* A run ended with two saved URLs in one file, and fewer files than saved URLs.
C9_Witness ==
  /\ AllReturned
  /\ \E t, u \in DOMAIN tasks :
        /\ tasks[t].save = "saved" /\ tasks[u].save = "saved"
        /\ tasks[t].url # tasks[u].url
        /\ UrlToFilename(tasks[t].url) = UrlToFilename(tasks[u].url)
  /\ Cardinality(DOMAIN files)
       < Cardinality({tasks[t].url : t \in {u \in DOMAIN tasks : tasks[u].save = "saved"}})

\* the URL the i-th href of the call stands for
CleanUrl(i) == StripFragment(UrlJoin(probe.base_url, probe.hrefs[i]))

\* the hrefs of the call that are kept: not skipped, valid, not visited
Kept == {i \in 1..Len(probe.hrefs) :
           /\ ~IsSkippedHref(probe.hrefs[i])
           /\ IsValidUrl(CleanUrl(i))
           /\ CleanUrl(i) \notin probe.visited}

\* where the URL u is first seen among the kept hrefs
FirstSeen(u) == Min({i \in Kept : CleanUrl(i) = u})

\* C10, for the calls that return: extract_links returns the URLs of the
\* kept hrefs (not skipped, resolved, fragment stripped, valid, not
\* visited), each once, in the order they are first seen, and leaves
\* visited_urls as it was; the hrefs of Scenario B give exactly
\* [https://example.com/docs/a].
C10_ExtractLinks ==
  probe.returned =>
    /\ Range(probe.links) = {CleanUrl(i) : i \in Kept}
    /\ \A a, b \in 1..Len(probe.links) :
          a < b => FirstSeen(probe.links[a]) < FirstSeen(probe.links[b])
    /\ visited_urls = probe.visited
    /\ (probe.hrefs = ScenarioB /\ probe.base_url = DOCS /\ start_url = DOCS
        /\ probe.visited = {})
         => probe.links = <<DOCS \o <<"a">>>>

\* A call returned two URLs where three kept hrefs stood for them, one of
\* them seen before in the call, with other hrefs dropped as visited.
C10_Witness ==
  /\ probe.returned
  /\ Len(probe.links) = 2
  /\ Cardinality(Kept) = 3
  /\ probe.visited # {}

\* C10 as stated, for every markup: the call of extract_links returns, and
\* what it returns is the sequence of the kept hrefs.  It fails for markup
\* with an href that urljoin refuses: the call raises ValueError.
C10_AsStated == ~probe.raised /\ C10_ExtractLinks

\* extract_links raised on markup that also holds an href it would keep
C10_Raised ==
  /\ probe.raised
  /\ \E i \in 1..Len(probe.hrefs) : ~UrlJoinRaises(probe.base_url, probe.hrefs[i])
                                     /\ i \in Kept

\* C11: with allow_query false, a URL that is_valid_url accepts has no
\* query string or exactly the query string of the root URL.
C11_AcceptedQuery ==
  (probe.checked /\ ~allow_query /\ probe.valid)
     => (probe.query = <<>> \/ probe.query = probe.root.query)

\* is_valid_url accepted a URL that carries the root URL's own query
\* string, with allow_query false.
C11_Witness ==
  /\ probe.checked
  /\ ~allow_query
  /\ probe.valid
  /\ probe.query # <<>>
  /\ probe.query = probe.root.query

\* the characters of [A-Za-z0-9_]
AsciiWord == Range(UPPERS) \cup Range(LOWERS) \cup Range(DIGITS) \cup {"_"}

\* name is a path part of characters in word or "-", ".", then, for a URL
\* with a query string, "--" and a query part of characters in word or
\* "-", "=", "&", and it ends in ".md"
MadeOf(name, query, word) ==
  /\ EndsWith(name, MD)
  /\ IF query = <<>>
     THEN Range(name) \subseteq (word \cup {"-", "."})
     ELSE \E k \in 0..(Len(name) - 5) :
             /\ Range(SubSeq(name, 1, k)) \subseteq (word \cup {"-", "."})
             /\ name[k + 1] = "-" /\ name[k + 2] = "-"
             /\ Range(SubSeq(name, k + 3, Len(name) - 3))
                   \subseteq (word \cup {"-", "=", "&"})

ScenarioA == start_url = DOCS /\ max_depth = 0 /\ web.fault.url # DOCS

\* C13, with the name url_to_filename gives the root: the run of Scenario A
\* creates no coroutine besides the root call, whatever links the root
\* page holds, writes no file but docs.md, and ends with exactly that file.
C13_ScenarioA ==
  ScenarioA =>
    /\ DOMAIN tasks = {ROOT}
    /\ tasks[ROOT].nkids = 0
    /\ DOMAIN files \subseteq {<<"d","o","c","s",".","m","d">>}
    /\ AllReturned => DOMAIN files = {<<"d","o","c","s",".","m","d">>}

\* The run of Scenario A ended, and the root page held links to follow.
C13_Witness ==
  /\ ScenarioA
  /\ AllReturned
  /\ tasks[ROOT].links # <<>>
  /\ files # <<>>

\* C13 as stated: the one file of Scenario A is named index.md.
C13_AsStated ==
  ScenarioA =>
    /\ DOMAIN tasks = {ROOT}
    /\ tasks[ROOT].nkids = 0
    /\ DOMAIN files \subseteq {<<"i","n","d","e","x",".","m","d">>}
    /\ AllReturned => DOMAIN files = {<<"i","n","d","e","x",".","m","d">>}

\* the call of Scenario D: url_to_filename on
\* https://example.com/docs/api?ver=2 with allow_query true
ScenarioD ==
  /\ probe.fn = "url"
  /\ allow_query
  /\ probe.url = DOCS \o <<"a","p","i","?">> \o VER_2
  /\ probe.names # <<>>

\* C14, with the '=' that line 110 keeps: the call of Scenario D returns
\* docs-api--ver=2.md.
C14_ScenarioD ==
  ScenarioD =>
    probe.names[1] = <<"d","o","c","s","-","a","p","i","-","-">> \o VER_2 \o MD

\* The call of Scenario D was made, on a crawler whose root is
\* https://example.com/docs/.
C14_Witness == ScenarioD /\ start_url = DOCS

\* C14 as stated: the call of Scenario D returns docs-api--ver-2.md.
C14_AsStated ==
  ScenarioD =>
    probe.names[1] = <<"d","o","c","s","-","a","p","i","-","-","v","e","r","-","2">> \o MD

\* C16: is_valid_url(u) is exactly: the host of u is the root's host, and
\* allow_query is set or u has no query or the root's query, and the path
\* of u starts with the root's path.  The pattern list rejects no URL, and
\* a URL on another host is rejected whatever its path and query.
C16_ThreeRules ==
  probe.checked =>
    /\ probe.valid <=>
          /\ probe.host = probe.root.host
          /\ allow_query \/ probe.query = <<>> \/ probe.query = probe.root.query
          /\ StartsWith(probe.path, probe.root.path)
    /\ probe.host # probe.root.host => ~probe.valid

\* is_valid_url accepted a URL with a query string that only the
\* catch-all pattern matches.
C16_Witness ==
  /\ probe.checked
  /\ probe.valid
  /\ ~MatchesAllowedPattern_NoCatchAll(probe.url)
  /\ probe.query # <<>>

\* a name with a query suffix: "--" stands in it
HasQuerySuffix(name) ==
  \E k \in 1..(Len(name) - 1) : name[k] = "-" /\ name[k + 1] = "-"

\* C17, as line 108 tests it: url_to_filename appends the "--" suffix
\* exactly when the URL has a query string, whatever allow_query is; a URL
\* carrying the root's own query, accepted with allow_query false, gets the
\* suffix too.
C17_QuerySuffix ==
  probe.fn = "url" =>
    \A n \in 1..Len(probe.names) :
       HasQuerySuffix(probe.names[n]) <=> probe.query # <<>>

\* With allow_query false, a URL carrying the root URL's query was accepted
\* and named.
C17_Witness ==
  /\ probe.checked
  /\ probe.valid
  /\ ~allow_query
  /\ probe.query # <<>>
  /\ probe.names # <<>>
  /\ HasQuerySuffix(probe.names[1])

\* C17 as stated: a name has the suffix only if allow_query is true.
C17_AsStated ==
  probe.fn = "url" =>
    \A n \in 1..Len(probe.names) :
       HasQuerySuffix(probe.names[n]) <=> (probe.query # <<>> /\ allow_query)

\* C15 as stated: a run that ended on an unexpected error reported it and
\* ended with a non-zero exit status, and only normal completion and a user
\* interrupt end with status 0.  It fails: main prints the error and
\* returns, and the status is 0.
C15_AsStated ==
  (probe.fn = "main" /\ probe.at = "exited") =>
     /\ probe.outcome = "error" => (probe.printed = "error" /\ probe.status # 0)
     /\ probe.status = 0 => probe.outcome \in {"completed", "interrupted"}

\* An exception left the crawl after pages were saved; main reported it and
\* the process ended with status 0.
C15_ErrorExit ==
  /\ probe.fn = "main"
  /\ probe.at = "exited"
  /\ probe.outcome = "error"
  /\ probe.printed = "error"
  /\ probe.status = 0
  /\ files # <<>>

\* coroutine t is past crawl_page and save_content (line 243 or later)
PastSave(t) == tasks[t].pc \in {"gathering", "done"}

\* C18 as stated: every page fetched with success and non-empty markdown
\* has save_content called for it once the coroutine is past line 240,
\* whatever its markup holds.  It fails for a page whose markup holds an
\* href that urljoin refuses: crawl_page returns ("", []) for it.
C18_AsStated ==
  \A t \in DOMAIN tasks :
     (PastSave(t) /\ FetchKind(tasks[t].url) = "ok"
        /\ ResultMarkdown(tasks[t].url) # <<>>)
       => tasks[t].save # "none"

\* A page was fetched with success and markdown, its markup made
\* extract_links raise, and the coroutine went on without saving it.
C18_Unsaved ==
  \E t \in DOMAIN tasks :
     /\ PastSave(t)
     /\ tasks[t].success
     /\ ResultMarkdown(tasks[t].url) # <<>>
     /\ ExtractRaises(ResultHtml(tasks[t].url), tasks[t].url)
     /\ tasks[t].save = "none"
     /\ tasks[t].links = <<>>

\* the in-scope URLs the markup of page u links to
Edges(u) ==
  {c \in {StripFragment(UrlJoin(u, h)) :
            h \in {g \in Range(PageOf(u).hrefs) :
                     ~IsSkippedHref(g) /\ ~UrlJoinRaises(u, g)}} :
     IsValidUrl(c)}

\* the URLs at link distance d or less from the root
RECURSIVE Within(_)
Within(d) ==
  IF d <= 0 THEN {start_url}
  ELSE Strict(Within(d - 1), LAMBDA W : W \cup UNION {Edges(u) : u \in W})

\* C19 as stated: at the end of a run in which every fetch succeeded,
\* visited_urls holds every in-scope URL at link distance max_depth or less
\* from the root.  It fails when a page is first reached over the longer
\* of two routes: it is at max_depth then, and its links are not followed.
C19_AsStated ==
  (AllReturned /\ max_depth >= 0 /\ \A t \in DOMAIN tasks : ~FetchFailed(t))
     => Within(max_depth) \subseteq visited_urls

\* A run with max_depth 3 ended; x, two links from the root, was crawled at
\* depth 3, and y, three links from the root, was never visited.
C19_Skipped ==
  /\ AllReturned
  /\ max_depth = 3
  /\ \E t \in DOMAIN tasks :
        tasks[t].url = MAZE \o <<"x">> /\ Dispatched(t) /\ tasks[t].depth = 3
  /\ MAZE \o <<"y">> \in Within(3)
  /\ MAZE \o <<"y">> \notin visited_urls

\* the run on the site with two routes to x, with max_depth 3
MazeRun3 == web.site = 5 /\ start_url = MAZE /\ max_depth = 3

\* C20 as stated, for that run: every run of it ends as the run of
\* C20_OneEnd does, with y visited and saved.  It fails: the run in which
\* the fetch of b completes after that of p ends without y.
C20_AsStated ==
  (MazeRun3 /\ AllReturned) =>
     /\ MAZE \o <<"y">> \in visited_urls
     /\ <<"m","-","y">> \o MD \in DOMAIN files

\* One run of it ended with y visited and saved.
C20_OneEnd ==
  /\ MazeRun3
  /\ AllReturned
  /\ MAZE \o <<"y">> \in visited_urls
  /\ <<"m","-","y">> \o MD \in DOMAIN files

====
